---- MODULE Spec2Model ----
(***************************************************************************)
(* A state-machine model of the Streamlit application in src/app.py.       *)
(* One step of the model is one run of main(): Streamlit executes the      *)
(* script top to bottom for every user interaction, so each action below   *)
(* is the whole run that one interaction (a button, a navigation) causes.  *)
(*                                                                         *)
(* Persistent state: the configuration (src/config.py), st.session_state,  *)
(* the on-disk vector index and index metadata, and the metrics store.     *)
(* The record `run` is what the last run did: the sections of main() it    *)
(* reached, the collaborator calls it made, the messages it showed and     *)
(* the values that flowed through the Ask handler.                         *)
(***************************************************************************)
EXTENDS Integers, Sequences, FiniteSets, TLC

\* ------------------------------------------------------------ bounds
\* Longest list retrieve_chunks returns in the model (the code asks for k=6).
MaxResults == 2
\* Most ReviewRun records the metrics store holds in the model.
MaxRuns == 2
\* MAX_DISTANCE = 2 (the relevance threshold of the Ask handler)
MAX_DISTANCE == 2

\* ------------------------------------------------------------ domains
\* repo_id values ("github::<owner>/<name>") the logged-in user can select.
Repos == {"github::o/a", "github::o/b"}
Users == {"alice"}
\* Nonces generate_state() can return.
States == {"s1"}
\* What the `state` query parameter of a callback can hold: a nonce this
\* application generated, a value it never generated, or nothing.
ReturnedStates == States \cup {"forged", "None"}
Commits == {"c1", "c2"}
PRNumbers == {7}
\* Stripped texts the chat model can answer with.
Answers == {"answer"}

\* A result dict without a "score" key.
NoScore == -1
\* The results retrieve_chunks can return in the model: one without a
\* score, and distances just below, at and above the threshold.
Result ==
    {[metadata |-> "a.py:1-10", score |-> NoScore],
     [metadata |-> "a.py:1-10", score |-> MAX_DISTANCE - 1],
     [metadata |-> "b.py:1-5", score |-> MAX_DISTANCE],
     [metadata |-> "b.py:1-5", score |-> MAX_DISTANCE + 1]}

\* Every list retrieve_chunks can hand back: dicts with "metadata" and an
\* optional "score" (read with r.get("score", 0.0) by the caller).
RetrievedLists == UNION {[1 .. n -> Result] : n \in 0 .. MaxResults}

\* ------------------------------------------------------------ constants
\* def clone_or_update_repo(owner, name): two parameters
CloneParams == 2
\* clone_or_update_repo(owner, name, access_token): three arguments
CloneCallArgs == 3

VARIABLES
    OPENAI_API_KEY,    \* config: TRUE iff the variable is set
    GITHUB_TOKEN,      \* config: TRUE iff the variable is set
    gh_access_token,   \* st.session_state["gh_access_token"], "None" = key absent
    gh_user,           \* st.session_state["gh_user"], "None" = key absent
    gh_state,          \* st.session_state["gh_state"], "None" = key absent
    qa_answer,         \* st.session_state.qa_answer: "absent", "None" or a text
    qa_sources,        \* st.session_state.qa_sources (<<>> while the key is absent)
    qa_origin,         \* history: the repo_id of the Ask that assigned qa_answer
    index,             \* repo_id -> commit the stored index was built from, "None" = no index
    index_metadata,    \* repo_id -> commit_hash of the stored metadata, "None" = absent
    review_runs,       \* repo_id -> ReviewRun records, in append order
    clock,             \* number of save_review_run calls so far (source of created_at)
    reviews_ok,        \* repo_id -> number of Run AI Review actions whose run_pr_review completed
    run                \* what the last run of main() did

vars == <<OPENAI_API_KEY, GITHUB_TOKEN, gh_access_token, gh_user, gh_state,
          qa_answer, qa_sources, qa_origin, index, index_metadata, review_runs, clock,
          reviews_ok, run>>

config == <<OPENAI_API_KEY, GITHUB_TOKEN>>
login == <<gh_access_token, gh_user, gh_state>>
qa == <<qa_answer, qa_sources>>
stores == <<index, index_metadata>>
metrics == <<review_runs, clock, reviews_ok>>

\* ------------------------------------------------------------ helpers
Count(s, x) == Cardinality({i \in 1 .. Len(s) : s[i] = x})
Has(s, x) == \E i \in 1 .. Len(s) : s[i] = x

\* The record of a run that did nothing yet.
\*   reached  the sections of main() the run executed, in order
\*   calls    the collaborator calls it made, in order
\*   msgs     the messages it put on the page, in order
\*   fail     the collaborator the environment makes raise in this run if
\*            the run calls it ("none": every collaborator succeeds)
\*   passed   the argument of every answer_with_rag call
\*   stored   TRUE iff the run assigned qa_answer and qa_sources
\*   pre_*    the stored values when the run started
NoRun ==
    [action |-> "none", repo |-> "None", reached |-> <<>>, calls |-> <<>>,
     msgs |-> <<>>, fail |-> "none", retrieved |-> <<>>, filtered |-> <<>>,
     passed |-> <<>>, stored |-> FALSE, returned_state |-> "None",
     expected_state |-> "None", pre_index |-> "None", pre_meta |-> "None",
     pre_answer |-> "absent", pre_sources |-> <<>>, pre_runs |-> 0,
     dashboard |-> <<>>]

\* ------------------------------------------------------------ pure code
\* score = r.get("score", 0.0)
Score(r) == IF r.score = NoScore THEN 0 ELSE r.score

\* Variant of the filter loop that inserts at the front instead of appending.
RECURSIVE RelevanceFilterLoopPrepend(_, _, _)
RelevanceFilterLoopPrepend(retrieved, i, filtered) ==
    IF i > Len(retrieved) THEN filtered
    ELSE RelevanceFilterLoopPrepend(retrieved, i + 1,
             IF Score(retrieved[i]) < MAX_DISTANCE
             THEN <<retrieved[i]>> \o filtered ELSE filtered)

\* Variant of the filter loop that tests score <= MAX_DISTANCE.
RECURSIVE RelevanceFilterLoopInclusive(_, _, _)
RelevanceFilterLoopInclusive(retrieved, i, filtered) ==
    IF i > Len(retrieved) THEN filtered
    ELSE RelevanceFilterLoopInclusive(retrieved, i + 1,
             IF Score(retrieved[i]) <= MAX_DISTANCE
             THEN Append(filtered, retrieved[i]) ELSE filtered)

\* for r in retrieved: if score < MAX_DISTANCE: filtered.append(r)
RECURSIVE RelevanceFilterLoop(_, _, _)
RelevanceFilterLoop(retrieved, i, filtered) ==
    IF i > Len(retrieved) THEN filtered
    ELSE RelevanceFilterLoop(retrieved, i + 1,
             IF Score(retrieved[i]) < MAX_DISTANCE
             THEN Append(filtered, retrieved[i]) ELSE filtered)

RelevanceFilterInclusive(retrieved) == RelevanceFilterLoopInclusive(retrieved, 1, <<>>)

RelevanceFilterPrepend(retrieved) == RelevanceFilterLoopPrepend(retrieved, 1, <<>>)

\* Variant that falls back to the unfiltered list when nothing passes.
RelevanceFilterFallback(retrieved) ==
    IF RelevanceFilterLoop(retrieved, 1, <<>>) = <<>> THEN retrieved
    ELSE RelevanceFilterLoop(retrieved, 1, <<>>)

\* filtered = [] ; the loop above
RelevanceFilter(retrieved) == RelevanceFilterLoop(retrieved, 1, <<>>)

\* for r in used_chunks: skip keys already seen, else sources_meta.append(meta_r)
RECURSIVE SourcesMetaLoop(_, _, _, _)
SourcesMetaLoop(used_chunks, i, seen, sources_meta) ==
    IF i > Len(used_chunks) THEN sources_meta
    ELSE LET meta_r == used_chunks[i].metadata IN
         IF meta_r \in seen
         THEN SourcesMetaLoop(used_chunks, i + 1, seen, sources_meta)
         ELSE SourcesMetaLoop(used_chunks, i + 1, seen \cup {meta_r},
                              Append(sources_meta, meta_r))

SourcesMeta(used_chunks) == SourcesMetaLoop(used_chunks, 1, {}, <<>>)

\* Variant of answer_with_rag that calls the chat model again after a failure.
answer_with_rag_retrying(chat_ok, text) ==
    [calls |-> IF chat_ok THEN <<"chat_completion">>
               ELSE <<"chat_completion", "chat_completion">>,
     raised |-> ~chat_ok, answer |-> text]

\* answer_with_rag: one chat.completions.create call; its failure propagates;
\* the answer is the stripped text of the first choice.
answer_with_rag(chat_ok, text) ==
    [calls |-> <<"chat_completion">>, raised |-> ~chat_ok, answer |-> text]

\* A try block running `steps` in order, the step named `fail` raising:
\* the calls made, and whether the except clause ran.
TryBlock(steps, fail) ==
    IF Has(steps, fail)
    THEN LET i == CHOOSE j \in 1 .. Len(steps) : steps[j] = fail IN
         [calls |-> SubSeq(steps, 1, i), raised |-> TRUE]
    ELSE [calls |-> steps, raised |-> FALSE]

\* Variant of clone_or_update_repo whose signature takes whatever the call
\* site passes.
clone_or_update_repo_any_arity(nargs, git_ok) ==
    IF ~GITHUB_TOKEN THEN [raised |-> "RuntimeError", calls |-> <<>>]
    ELSE IF ~git_ok THEN [raised |-> "RuntimeError", calls |-> <<"git">>]
    ELSE [raised |-> "none", calls |-> <<"git">>]

\* clone_or_update_repo as the call site reaches it: a call with nargs
\* positional arguments binds only when the signature has that many
\* parameters (TypeError otherwise); then the GITHUB_TOKEN check; then git
\* clone or pull, whose GitCommandError becomes a RuntimeError.
clone_or_update_repo(nargs, git_ok) ==
    IF nargs # CloneParams THEN [raised |-> "TypeError", calls |-> <<>>]
    ELSE IF ~GITHUB_TOKEN THEN [raised |-> "RuntimeError", calls |-> <<>>]
    ELSE IF ~git_ok THEN [raised |-> "RuntimeError", calls |-> <<"git">>]
    ELSE [raised |-> "none", calls |-> <<"git">>]

\* The steps of the Fetch & Index try block after the clone.
IndexSteps ==
    <<"list_code_files", "chunk_repository", "build_index", "save_index_metadata">>

FetchFailures == {"none", "git"} \cup {IndexSteps[i] : i \in 1 .. Len(IndexSteps)}

\* The try block of "Fetch & Index selected repo": the calls made, whether
\* the except clause ran, and whether build_index and save_index_metadata
\* completed (a build_index that raises leaves the stored index as it was:
\* the store replaces an index atomically).
FetchTry(fail) ==
    LET c == clone_or_update_repo(CloneCallArgs, fail # "git") IN
    IF c.raised # "none"
    THEN [calls |-> c.calls, raised |-> TRUE, built |-> FALSE, saved |-> FALSE]
    ELSE LET t == TryBlock(IndexSteps, fail) IN
         [calls |-> c.calls \o t.calls, raised |-> t.raised,
          built |-> Has(t.calls, "build_index") /\ fail # "build_index",
          saved |-> Has(t.calls, "save_index_metadata") /\ ~t.raised]

\* load_index(repo_id): not-found iff no index was ever built for repo_id.
load_index(repo_id) ==
    IF index[repo_id] = "None" THEN "FileNotFoundError" ELSE "ok"

\* Variant of ensure_index_exists that never reports a missing index.
ensure_index_exists_always(repo_id) == TRUE

\* try: load_index(repo_id); return True / except FileNotFoundError: return False
ensure_index_exists(repo_id) == load_index(repo_id) # "FileNotFoundError"

\* Variant of the review try block that saves the run before the review.
ReviewStepsSaveFirst ==
    <<"get_pull_request_files", "build_diff_chunks_from_github_files",
      "save_review_run", "run_pr_review">>

\* The steps of the Run AI Review try block.
ReviewSteps ==
    <<"get_pull_request_files", "build_diff_chunks_from_github_files",
      "run_pr_review", "save_review_run">>

ReviewFailures ==
    {"none", "get_pull_request_files", "build_diff_chunks_from_github_files",
     "run_pr_review"}

\* save_review_run(repo_id, pr_number, ...): append one ReviewRun.
save_review_run(runs, repo_id, pr_number, now) ==
    [runs EXCEPT ![repo_id] =
        Append(@, [repo_id |-> repo_id, pr_number |-> pr_number, created_at |-> now])]

\* DataFrame(...).sort_values("created_at")
RECURSIVE InsertByCreatedAt(_, _)
InsertByCreatedAt(sorted, r) ==
    IF sorted = <<>> THEN <<r>>
    ELSE IF r.created_at < Head(sorted).created_at THEN <<r>> \o sorted
    ELSE <<Head(sorted)>> \o InsertByCreatedAt(Tail(sorted), r)

RECURSIVE SortByCreatedAt(_)
SortByCreatedAt(runs) ==
    IF runs = <<>> THEN <<>>
    ELSE InsertByCreatedAt(SortByCreatedAt(SubSeq(runs, 1, Len(runs) - 1)),
                           runs[Len(runs)])

\* ------------------------------------------------------------ the run of main()
\* Variant of the login gate that lets every session through.
LoggedInAlways == TRUE

\* "gh_access_token" in st.session_state
LoggedIn == gh_access_token # "None"

\* A run that passed validate_config, the login gate and the repo selection
\* with repo_id selected, before the sidebar's Fetch & Index button.
Selected(action, repo_id) ==
    [NoRun EXCEPT !.action = action, !.repo = repo_id,
                  !.reached = <<"validate_config", "login_gate", "repo_selection">>,
                  !.calls = <<"get_user_repos">>,
                  !.pre_index = index[repo_id],
                  !.pre_meta = index_metadata[repo_id],
                  !.pre_answer = qa_answer,
                  !.pre_sources = qa_sources,
                  !.pre_runs = Len(review_runs[repo_id])]

\* indexed = ensure_index_exists(repo_id); if not indexed: st.info(...); st.stop()
IndexGate(r) ==
    [r EXCEPT !.reached = @ \o <<"ensure_index_exists">>,
              !.calls = @ \o <<"load_index">>]

GateStop(r) == [r EXCEPT !.msgs = @ \o <<"index_first">>]

\* load_index_metadata and the head of the Q&A tab (qa_answer / qa_sources
\* are created when absent).
QATab(r) ==
    [r EXCEPT !.reached = @ \o <<"qa_tab">>,
              !.calls = @ \o <<"load_index_metadata">>]

QAInit(answer) == IF answer = "absent" THEN "None" ELSE answer

\* The PR Review tab up to its button: list_pull_requests inside try/except.
PRTab(r) ==
    [r EXCEPT !.reached = @ \o <<"pr_tab">>,
              !.calls = @ \o <<"list_pull_requests">>]

\* The Quality Dashboard tab: load_review_runs, then sort by created_at.
Dashboard(r, runs) ==
    [r EXCEPT !.reached = @ \o <<"dashboard">>,
              !.calls = @ \o <<"load_review_runs">>,
              !.dashboard = SortByCreatedAt(runs[r.repo])]

\* validate_config raises: st.error, st.stop.
StartupHalt ==
    /\ ~OPENAI_API_KEY
    /\ run' = [NoRun EXCEPT !.action = "startup_halt",
                            !.reached = <<"validate_config">>,
                            !.msgs = <<"config_error">>]
    /\ UNCHANGED <<config, login, qa, qa_origin, stores, metrics>>

\* Not logged in, no code in the query parameters: the login screen.
LoginScreen ==
    /\ OPENAI_API_KEY
    /\ ~LoggedIn
    /\ \E s \in States :
          gh_state' = IF gh_state = "None" THEN s ELSE gh_state
    /\ run' = [NoRun EXCEPT !.action = "login_screen",
                            !.reached = <<"validate_config", "login_screen">>,
                            !.msgs = <<"login_prompt">>]
    /\ UNCHANGED <<config, gh_access_token, gh_user, qa, qa_origin, stores, metrics>>

\* The browser arrives with ?code=...&state=returned_state and no token is
\* in the session: the OAuth callback block, then the login gate. (With a
\* token in the session the block is skipped and the run is a View.)
OAuthCallback ==
    /\ OPENAI_API_KEY
    /\ ~LoggedIn
    /\ \E returned_state \in ReturnedStates, user \in Users, s \in States,
          outcome \in {"none", "exchange_code_for_token", "get_user"} :
          LET expected_state == gh_state
              base == [NoRun EXCEPT !.action = "oauth_callback",
                                    !.reached = <<"validate_config", "oauth_callback">>,
                                    !.returned_state = returned_state,
                                    !.expected_state = expected_state,
                                    !.fail = outcome]
              t == TryBlock(<<"exchange_code_for_token", "get_user">>, outcome)
          IN
          IF expected_state # "None" /\ returned_state # expected_state
          THEN /\ run' = [base EXCEPT !.msgs = <<"state_mismatch", "login_prompt">>,
                                      !.reached = @ \o <<"login_screen">>,
                                      !.fail = "none"]
               /\ UNCHANGED login
          ELSE IF t.raised
          THEN /\ run' = [base EXCEPT !.calls = t.calls,
                                      !.msgs = <<"oauth_failed", "login_prompt">>,
                                      !.reached = @ \o <<"login_screen">>]
               /\ gh_state' = IF gh_state = "None" THEN s ELSE gh_state
               /\ UNCHANGED <<gh_access_token, gh_user>>
          ELSE /\ run' = [base EXCEPT !.calls = t.calls,
                                      !.msgs = <<"logged_in">>,
                                      !.reached = @ \o <<"rerun">>]
               /\ gh_access_token' = user
               /\ gh_user' = user
               /\ UNCHANGED gh_state
    /\ UNCHANGED <<config, qa, qa_origin, stores, metrics>>

\* The Logout button: pop the three keys, clear the query, rerun.
Logout ==
    /\ OPENAI_API_KEY
    /\ LoggedIn
    /\ gh_access_token' = "None"
    /\ gh_user' = "None"
    /\ gh_state' = "None"
    /\ run' = [NoRun EXCEPT !.action = "logout",
                            !.reached = <<"validate_config", "login_gate", "logout", "rerun">>]
    /\ UNCHANGED <<config, qa, qa_origin, stores, metrics>>

\* get_user_repos returns no repository (st.warning, st.stop) or raises.
ReposUnavailable ==
    /\ OPENAI_API_KEY
    /\ LoggedIn
    /\ \E outcome \in {"empty", "error"} :
          run' = [NoRun EXCEPT !.action = "repos_unavailable",
                               !.reached = <<"validate_config", "login_gate", "repo_selection">>,
                               !.calls = <<"get_user_repos">>,
                               !.fail = IF outcome = "error" THEN "get_user_repos" ELSE "none",
                               !.msgs = IF outcome = "error" THEN <<"exception">>
                                        ELSE <<"no_repositories">>]
    /\ UNCHANGED <<config, login, qa, qa_origin, stores, metrics>>

\* A run with no button pressed: the rerun after login, or a change of the
\* repo selectbox.
View ==
    /\ OPENAI_API_KEY
    /\ LoggedIn
    /\ \E repo_id \in Repos :
          LET g == IndexGate(Selected("view", repo_id)) IN
          IF ~ensure_index_exists(repo_id)
          THEN /\ run' = GateStop(g)
               /\ UNCHANGED <<qa, qa_origin>>
          ELSE /\ run' = Dashboard(PRTab(QATab(g)), review_runs)
               /\ qa_answer' = QAInit(qa_answer)
               /\ UNCHANGED <<qa_sources, qa_origin>>
    /\ UNCHANGED <<config, login, stores, metrics>>

\* The sidebar button "Fetch & Index selected repo", pressed on the page the
\* previous run rendered for repo_id; then the rest of the run.
FetchAndIndex ==
    /\ OPENAI_API_KEY
    /\ LoggedIn
    /\ run.repo \in Repos
    /\ \E repo_id \in {run.repo}, commit_hash \in Commits, fail \in FetchFailures :
          LET t == FetchTry(fail)
              f == [Selected("fetch", repo_id) EXCEPT
                        !.reached = @ \o <<"fetch_index">>,
                        !.calls = @ \o t.calls,
                        !.fail = fail,
                        !.msgs = IF t.raised THEN <<"fetch_failed">> ELSE <<"indexed">>]
              g == IndexGate(f)
          IN
          /\ index' = IF t.built THEN [index EXCEPT ![repo_id] = commit_hash] ELSE index
          /\ index_metadata' = IF t.saved
                               THEN [index_metadata EXCEPT ![repo_id] = commit_hash]
                               ELSE index_metadata
          /\ IF ~ensure_index_exists(repo_id)'
             THEN /\ run' = GateStop(g)
                  /\ UNCHANGED <<qa, qa_origin>>
             ELSE /\ run' = Dashboard(PRTab(QATab(g)), review_runs)
                  /\ qa_answer' = QAInit(qa_answer)
                  /\ UNCHANGED <<qa_sources, qa_origin>>
    /\ UNCHANGED <<config, login, metrics>>

\* The "Ask" button of the Q&A tab, pressed on the page the previous run
\* rendered for repo_id. retrieve_chunks and answer_with_rag sit in no try
\* block: when one raises, the run ends with the exception on the page.
Ask ==
    /\ OPENAI_API_KEY
    /\ LoggedIn
    /\ run.repo \in Repos
    /\ Has(run.reached, "qa_tab")
    /\ \E repo_id \in {run.repo} :
          LET g == IndexGate(Selected("ask", repo_id))
              q == QATab(g)
              r == [q EXCEPT !.calls = @ \o <<"retrieve_chunks">>]
          IN
          IF ~ensure_index_exists(repo_id)
          THEN /\ run' = GateStop(g)
               /\ UNCHANGED <<qa, qa_origin>>
          ELSE \/ \* `and question.strip()` is false: nothing is asked
                  /\ run' = Dashboard(PRTab(q), review_runs)
                  /\ qa_answer' = QAInit(qa_answer)
                  /\ UNCHANGED <<qa_sources, qa_origin>>
               \/ \* retrieve_chunks raises
                  /\ run' = [r EXCEPT !.fail = "retrieve_chunks", !.msgs = <<"exception">>]
                  /\ qa_answer' = QAInit(qa_answer)
                  /\ UNCHANGED <<qa_sources, qa_origin>>
               \/ \E retrieved \in RetrievedLists :
                     LET filtered == RelevanceFilter(retrieved)
                         rf == [r EXCEPT !.retrieved = retrieved, !.filtered = filtered]
                     IN
                     IF retrieved = <<>>
                     THEN /\ run' = Dashboard(PRTab([rf EXCEPT !.msgs = <<"no_snippets">>]),
                                              review_runs)
                          /\ qa_answer' = QAInit(qa_answer)
                          /\ UNCHANGED <<qa_sources, qa_origin>>
                     ELSE IF filtered = <<>>
                     THEN \* st.warning(...); st.stop()
                          /\ run' = [rf EXCEPT !.msgs = <<"none_strongly_related">>]
                          /\ qa_answer' = QAInit(qa_answer)
                          /\ UNCHANGED <<qa_sources, qa_origin>>
                     ELSE \E chat_ok \in BOOLEAN, text \in Answers :
                          LET a == answer_with_rag(chat_ok, text)
                              ra == [rf EXCEPT !.calls = @ \o a.calls,
                                               !.passed = <<filtered>>]
                          IN
                          IF a.raised
                          THEN /\ run' = [ra EXCEPT !.fail = "chat_completion",
                                                    !.msgs = <<"exception">>]
                               /\ qa_answer' = QAInit(qa_answer)
                               /\ UNCHANGED <<qa_sources, qa_origin>>
                          ELSE /\ run' = Dashboard(PRTab([ra EXCEPT !.stored = TRUE]),
                                                   review_runs)
                               /\ qa_answer' = a.answer
                               /\ qa_sources' = SourcesMeta(filtered)
                               /\ qa_origin' = repo_id
    /\ UNCHANGED <<config, login, stores, metrics>>

\* The "Run AI Review" button of the PR Review tab, pressed on the page the
\* previous run rendered for repo_id with a non-empty list of open PRs.
RunAIReview ==
    /\ OPENAI_API_KEY
    /\ LoggedIn
    /\ run.repo \in Repos
    /\ Has(run.reached, "pr_tab")
    /\ \E repo_id \in {run.repo}, pr_number \in PRNumbers, fail \in ReviewFailures :
          LET g == IndexGate(Selected("review", repo_id))
              t == TryBlock(ReviewSteps, fail)
              saved == Has(t.calls, "save_review_run")
              p == [PRTab(QATab(g)) EXCEPT
                        !.calls = @ \o t.calls,
                        !.fail = fail,
                        !.msgs = IF t.raised THEN <<"review_failed">>
                                 ELSE <<"review_shown">>]
          IN
          IF ~ensure_index_exists(repo_id)
          THEN /\ run' = GateStop(g)
               /\ UNCHANGED <<qa, qa_origin, metrics>>
          ELSE /\ saved => clock < MaxRuns
               /\ review_runs' = IF saved
                                 THEN save_review_run(review_runs, repo_id, pr_number, clock + 1)
                                 ELSE review_runs
               /\ clock' = IF saved THEN clock + 1 ELSE clock
               /\ reviews_ok' = IF fail = "none"
                                THEN [reviews_ok EXCEPT ![repo_id] = @ + 1]
                                ELSE reviews_ok
               /\ run' = Dashboard(p, review_runs')
               /\ qa_answer' = QAInit(qa_answer)
               /\ UNCHANGED <<qa_sources, qa_origin>>
    /\ UNCHANGED <<config, login, stores>>

\* ------------------------------------------------------------ specification
\* A fresh browser session on a machine whose data directory may already
\* hold indexes (with their metadata) written by an earlier process.
Init ==
    /\ OPENAI_API_KEY \in BOOLEAN
    /\ GITHUB_TOKEN \in BOOLEAN
    /\ gh_access_token = "None"
    /\ gh_user = "None"
    /\ gh_state = "None"
    /\ qa_answer = "absent"
    /\ qa_sources = <<>>
    /\ qa_origin = "None"
    /\ index \in [Repos -> {"None", "c1"}]
    /\ index_metadata = index
    /\ review_runs = [r \in Repos |-> <<>>]
    /\ clock = 0
    /\ reviews_ok = [r \in Repos |-> 0]
    /\ run = NoRun

Next ==
    \/ StartupHalt
    \/ LoginScreen
    \/ OAuthCallback
    \/ Logout
    \/ ReposUnavailable
    \/ View
    \/ FetchAndIndex
    \/ Ask
    \/ RunAIReview

Spec == Init /\ [][Next]_vars

\* ------------------------------------------------------------ properties
AskRan == run.action = "ask" /\ Has(run.calls, "retrieve_chunks")

\* Every result the last run handed to answer_with_rag satisfies P.
AllPassed(P(_)) ==
    \A n \in 1 .. Len(run.passed) :
        \A i \in 1 .. Len(run.passed[n]) : P(run.passed[n][i])

\* Every source the last run stored comes from a retrieved result satisfying P.
AllStoredSources(P(_)) ==
    run.stored =>
        \A j \in 1 .. Len(qa_sources) :
            \E i \in 1 .. Len(run.retrieved) :
                /\ run.retrieved[i].metadata = qa_sources[j]
                /\ P(run.retrieved[i])

KnownBelow(r) == r.score # NoScore /\ r.score < MAX_DISTANCE

BelowOrUnknown(r) == r.score = NoScore \/ r.score < MAX_DISTANCE

AllKnownAtOrAbove(s) ==
    \A i \in 1 .. Len(s) : s[i].score # NoScore /\ s[i].score >= MAX_DISTANCE

RECURSIVE IsSubsequence(_, _)
IsSubsequence(s, t) ==
    IF s = <<>> THEN TRUE
    ELSE IF t = <<>> THEN FALSE
    ELSE IF Head(s) = Head(t) THEN IsSubsequence(Tail(s), Tail(t))
    ELSE IsSubsequence(s, Tail(t))

IsSorted(s) == \A i, j \in 1 .. Len(s) : i < j => Score(s[i]) <= Score(s[j])

ErrorMessages == {"exception", "fetch_failed", "review_failed", "oauth_failed"}

ErrorsShown == Cardinality({i \in 1 .. Len(run.msgs) : run.msgs[i] \in ErrorMessages})

\* C1 (as stated): every result the Ask action hands to answer_with_rag, and
\* every source it stores in qa_sources, has a known distance strictly
\* below 2.0; a result with no distance is never passed on.
C1_OnlyKnownDistancesBelowThreshold ==
    AskRan => AllPassed(KnownBelow) /\ AllStoredSources(KnownBelow)

\* C1 (amended): every result the Ask action hands to answer_with_rag, and
\* every source it stores, has either a distance strictly below 2.0 or no
\* distance at all (a missing score is read as 0.0 and kept); what is
\* handed on is exactly the filtered list, so no result with a known
\* distance >= 2.0 is ever passed to generation.
C1_NoKnownDistanceAtOrAboveThreshold ==
    AskRan =>
        /\ AllPassed(BelowOrUnknown)
        /\ AllStoredSources(BelowOrUnknown)
        /\ \A n \in 1 .. Len(run.passed) : run.passed[n] = run.filtered
        /\ \A i \in 1 .. Len(run.filtered) : BelowOrUnknown(run.filtered[i])

\* An Ask stored an answer after dropping a result at or above the
\* threshold and keeping one that has no score.
C1_Witness ==
    /\ AskRan
    /\ run.stored
    /\ \E i \in 1 .. Len(run.retrieved) : run.retrieved[i].score >= MAX_DISTANCE
    /\ \E i \in 1 .. Len(run.filtered) : run.filtered[i].score = NoScore

\* C2: when retrieve_chunks returns a non-empty list whose results all have
\* distance >= 2.0, the Ask action keeps zero results, never calls
\* answer_with_rag, shows the "none of it looked strongly related" warning
\* and leaves qa_answer and qa_sources as they were.
C2_AllIrrelevantAsksNothing ==
    (AskRan /\ run.retrieved # <<>> /\ AllKnownAtOrAbove(run.retrieved)) =>
        /\ run.filtered = <<>>
        /\ run.passed = <<>>
        /\ ~Has(run.calls, "chat_completion")
        /\ run.msgs = <<"none_strongly_related">>
        /\ ~run.stored
        /\ qa_answer = run.pre_answer
        /\ qa_sources = run.pre_sources

\* An Ask whose results all lie at or above the threshold, one of them
\* strictly above, ran in a session that already held an answer.
C2_Witness ==
    /\ AskRan
    /\ run.retrieved # <<>>
    /\ AllKnownAtOrAbove(run.retrieved)
    /\ \E i \in 1 .. Len(run.retrieved) : run.retrieved[i].score > MAX_DISTANCE
    /\ run.pre_answer = "answer"
    /\ run.pre_sources # <<>>

\* C3: a run that reaches the index check for a repo_id whose index is
\* absent shows the "Index this repo first" prompt and stops before the
\* Q&A, PR Review and Dashboard tabs; retrieve_chunks is never called for a
\* repo_id with no index, and no exception reaches the page.
C3_MissingIndexStopsAtPrompt ==
    /\ (Has(run.reached, "ensure_index_exists")
          /\ load_index(run.repo) = "FileNotFoundError") =>
            /\ Has(run.msgs, "index_first")
            /\ run.reached[Len(run.reached)] = "ensure_index_exists"
            /\ ~Has(run.reached, "qa_tab")
            /\ ~Has(run.reached, "pr_tab")
            /\ ~Has(run.reached, "dashboard")
            /\ ~Has(run.msgs, "exception")
    /\ Has(run.calls, "retrieve_chunks") => load_index(run.repo) = "ok"

\* A run selected a repo_id with no index and was stopped at the prompt.
C3_Witness ==
    /\ run.action = "view"
    /\ index[run.repo] = "None"
    /\ Has(run.msgs, "index_first")

\* The last run was a Fetch & Index whose try block ended in its except clause.
FetchFailed == run.action = "fetch" /\ Has(run.msgs, "fetch_failed")

C5_SuccessfulFetchBuildsIndex ==
    (run.action = "fetch" /\ run.fail = "none") =>
        /\ Has(run.calls, "build_index")
        /\ Has(run.calls, "save_index_metadata")
        /\ ensure_index_exists(run.repo)

\* C6 (as stated): while a credential a pipeline operation requires is
\* unset (OPENAI_API_KEY or GITHUB_TOKEN), every run halts in
\* validate_config: nothing after it is reached.
C6_MissingCredentialHaltsAtStartup ==
    (~OPENAI_API_KEY \/ ~GITHUB_TOKEN) =>
        run.action \in {"none", "startup_halt"}

\* C7: the relevance filter never reorders: the filtered list is a
\* subsequence of the retrieved list, the list handed to answer_with_rag is
\* the filtered list, and a retrieved list sorted by non-decreasing
\* distance gives a filtered list that is sorted too.
C7_FilterKeepsOrder ==
    AskRan =>
        /\ IsSubsequence(run.filtered, run.retrieved)
        /\ Len(run.filtered) <= Len(run.retrieved)
        /\ IsSorted(run.retrieved) => IsSorted(run.filtered)
        /\ \A n \in 1 .. Len(run.passed) : run.passed[n] = run.filtered

\* An Ask kept two different results of a sorted list, in their order.
C7_Witness ==
    /\ AskRan
    /\ Len(run.filtered) = 2
    /\ run.filtered[1] # run.filtered[2]
    /\ IsSorted(run.retrieved)
    /\ run.passed = <<run.filtered>>

Collaborators ==
    {"exchange_code_for_token", "get_user", "get_user_repos", "git",
     "list_code_files", "chunk_repository", "build_index", "save_index_metadata",
     "load_index", "load_index_metadata", "retrieve_chunks", "chat_completion",
     "list_pull_requests", "get_pull_request_files",
     "build_diff_chunks_from_github_files", "run_pr_review", "save_review_run",
     "load_review_runs"}

\* C9: no retry anywhere: a run calls each collaborator at most once (an
\* Ask issues at most one chat-completion call), shows at most one error,
\* and when a collaborator it called failed, that call was made once and
\* exactly one error is shown.
C9_SingleShotNoRetry ==
    /\ \A c \in Collaborators : Count(run.calls, c) <= 1
    /\ \A i \in 1 .. Len(run.calls) : run.calls[i] \in Collaborators
    /\ ErrorsShown <= 1
    /\ (run.fail # "none" /\ Has(run.calls, run.fail)) =>
          /\ Count(run.calls, run.fail) = 1
          /\ ErrorsShown = 1

\* An Ask whose chat-completion call failed: one call, one error.
C9_Witness ==
    /\ AskRan
    /\ run.fail = "chat_completion"
    /\ Count(run.calls, "chat_completion") = 1
    /\ run.msgs = <<"exception">>

\* C10 (as stated): the callback exchanges the code, and the session
\* becomes logged in, only when the returned state equals the state this
\* session generated; a session holding no generated state never logs in.
C10_LoginOnlyWithMatchingState ==
    (run.action = "oauth_callback"
        /\ (LoggedIn \/ Has(run.calls, "exchange_code_for_token"))) =>
        /\ run.expected_state # "None"
        /\ run.returned_state = run.expected_state

\* The sections of main() behind the login gate, and the calls they make.
GatedSections == {"repo_selection", "fetch_index", "ensure_index_exists",
                  "qa_tab", "pr_tab", "dashboard"}

GatedCalls == Collaborators \ {"exchange_code_for_token", "get_user"}

\* The run recorded in r executed something behind the login gate.
Gated(r) ==
    \/ \E i \in 1 .. Len(r.reached) : r.reached[i] \in GatedSections
    \/ \E i \in 1 .. Len(r.calls) : r.calls[i] \in GatedCalls

\* C11: repo listing, Fetch & Index, Ask, Run AI Review and the dashboard
\* read are executed only by a run that starts and ends with
\* gh_access_token in the session; a Logout leaves gh_access_token, gh_user
\* and gh_state absent and runs nothing behind the gate; and a session
\* without a token gets only the login screen (or a configuration halt)
\* until an OAuth callback succeeds.
C11_LoginGate ==
    [][/\ Gated(run') =>
            /\ gh_access_token # "None" /\ gh_access_token' # "None"
            /\ gh_user' # "None"
       /\ run'.action = "logout" =>
            /\ gh_access_token' = "None"
            /\ gh_user' = "None"
            /\ gh_state' = "None"
            /\ ~Gated(run')
       /\ gh_access_token = "None" =>
            /\ run'.action \in {"startup_halt", "login_screen", "oauth_callback"}
            /\ gh_access_token' # "None" =>
                  /\ run'.action = "oauth_callback"
                  /\ run'.calls = <<"exchange_code_for_token", "get_user">>
                  /\ run'.fail = "none"
            /\ gh_access_token' = "None" =>
                  run'.reached[Len(run'.reached)] \in {"validate_config", "login_screen"}
      ]_vars

\* After a session that asked a question and logged out, the next run
\* showed the login screen only.
C11_Witness ==
    /\ run.action = "login_screen"
    /\ gh_access_token = "None"
    /\ gh_user = "None"
    /\ qa_answer = "answer"
    /\ run.msgs = <<"login_prompt">>

\* The run rendered the whole page for run.repo, the Q&A tab's "Answer" and
\* "Sources" blocks included: `if st.session_state.qa_answer:` with
\* github_base built from the owner/name now selected.
AnswerRendered ==
    /\ Has(run.reached, "qa_tab")
    /\ Has(run.reached, "dashboard")
    /\ qa_answer \notin {"absent", "None"}

\* C12: whenever the Q&A tab renders a stored answer and its sources, they
\* were produced by an Ask against the repository now selected.
C12_AnswerBelongsToSelectedRepo ==
    AnswerRendered => qa_origin = run.repo

====
